---------------------------- MODULE Spec2Model ----------------------------
(***************************************************************************)
(* A model of gypsum's front end: the input loaders of                     *)
(* Steps/IO/LoadFiles.py, the parameter merging of Start.py, the run of    *)
(* Start.prepare_molecules and the protonation stage of                    *)
(* Steps/SMILES/AddHydrogens.py.                                           *)
(*                                                                         *)
(* Python strings are TLA+ strings, "{}_copy_{}".format(name, k) is string *)
(* concatenation with ToString(k).  A Python dict is a function whose      *)
(* DOMAIN is the set of its keys.                                          *)
(***************************************************************************)
EXTENDS Integers, Sequences, FiniteSets, TLC

VARIABLES
    \* ---- LoadFiles.py: load_smiles_file / load_sdf_file
    ld_kind,              \* "smi" | "sdf": which loader runs
    ld_input,             \* the file: a sequence of lines (smi) or molecules (sdf)
    ld_i,                 \* index of the next line / molecule of the for loop
    ld_pc,                \* "loop" | "returned" | "raised"
    data,                 \* the list the loader returns
    duplicate_names,      \* dict name -> last copy number
    missing_name_counter,
    line_counter,         \* line_counter (smi) / mol_obj_counter (sdf)
    name_list,
    \* ---- Start.py: merge_parameters(default, params)
    mp_params,            \* the user's dict, as its (key, value) pairs in order
    mp_default,           \* the dict of defaults, updated in place
    mp_type_dict,         \* make_type_dict(default)
    mp_i,                 \* index of the next pair of "for param in params"
    mp_pc,                \* "start" | "loop" | "returned" | "KeyError" | "TypeError"
    \* ---- Start.py: prepare_molecules(args)
    pc,                   \* the statement prepare_molecules is at
    args,                 \* the arguments given: multithread_mode, num_processors, source
    platform,             \* sys.platform
    mpi4py_installed,     \* whether "import mpi4py" succeeds
    params,               \* the params dict (the entries the run reads and writes)
    parallelizer,         \* params["Parallelizer"], NoParallelizer before it is made
    smiles_data,          \* the input records
    build_i,              \* the i of "for i in range(0, len(smiles_data))", from 1
    contnrs,              \* the list of containers
    idx_counter,
    failed_file,          \* the lines of <output_file>.failed.smi, NoFile when not written
    calls,                \* the calls made so far, in order
    error,                \* the exception that ended the run, "" when none
    \* ---- Steps/SMILES/AddHydrogens.py: add_hydrogens / parallel_add_H
    ah_pc,                \* the statement add_hydrogens is at
    ah_backend,           \* how parallelizer_obj.run runs the work items
    ah_given,             \* the containers as they were when add_hydrogens was entered
    ah_contnrs,           \* contnrs
    ah_dicts,             \* the dict objects made by add_hydrogens, by identity
    inputs,               \* the work items: (contnr, protonation_settings) by reference
    ah_work,              \* one parallel_add_H call per work item
    results,
    contnr_idxs_of_failed,
    ah_k                  \* index of the next miss_indx of the for loop, from 1

loadVars == <<ld_kind, ld_input, ld_i, ld_pc, data, duplicate_names,
              missing_name_counter, line_counter, name_list>>

mergeVars == <<mp_params, mp_default, mp_type_dict, mp_i, mp_pc>>

runVars == <<pc, args, platform, mpi4py_installed, params, parallelizer,
             smiles_data, build_i, contnrs, idx_counter, failed_file, calls, error>>

addhVars == <<ah_pc, ah_backend, ah_given, ah_contnrs, ah_dicts, inputs, ah_work,
              results, contnr_idxs_of_failed, ah_k>>

vars == <<loadVars, mergeVars, runVars, addhVars>>

-----------------------------------------------------------------------------
(* Bounds of the model.                                                    *)

MaxLines == 3
MaxUserParams == 2
MaxRecords == 2
MaxVariants == 2

-----------------------------------------------------------------------------
(* Generic helpers.                                                        *)

SeqsUpTo(S, n) == UNION {[1..k -> S] : k \in 0..n}

Range(s) == {s[k] : k \in DOMAIN s}

\* " ".join(chunks)
RECURSIVE JoinSp(_)
JoinSp(chunks) ==
    IF chunks = <<>> THEN ""
    ELSE IF Len(chunks) = 1 THEN chunks[1]
    ELSE chunks[1] \o " " \o JoinSp(Tail(chunks))

-----------------------------------------------------------------------------
(* LoadFiles.py                                                            *)

\* A line of a .smi file after line.strip() and line.split(): its chunks.
\* <<>> is a blank line, <<"C">> a line with a SMILES and no name.
SmiLinePool ==
    { <<>>,
      <<"C">>,
      <<"C", "lig">>,
      <<"C", "lig_copy_2">>,
      <<"C", "untitled_lig_0_line_1">> }

\* A molecule of an SDF file as the supplier yields it: None (a block RDKit
\* could not read), or a molecule with its _Name ("" when absent), the
\* SMILES MolToSmiles gives for it and its property keys.
SdfMolPool ==
    { [isNone |-> TRUE,  name |-> "",    smiles |-> "",  props |-> {}],
      [isNone |-> FALSE, name |-> "",    smiles |-> "C", props |-> {}],
      [isNone |-> FALSE, name |-> "lig", smiles |-> "C", props |-> {"MW"}],
      [isNone |-> FALSE, name |-> "lig", smiles |-> "",  props |-> {}],
      [isNone |-> FALSE, name |-> "lig", smiles |-> "CC", props |-> {}] }

\* "{}_copy_{}".format(name, k)
CopyName(name, k) == name \o "_copy_" \o ToString(k)

\* "untitled_lig_{}_line_{}".format(missing_name_counter, line_counter)
UntitledSmiName(missing, line) ==
    "untitled_lig_" \o ToString(missing) \o "_line_" \o ToString(line)

\* "untitled_lig_{}_molnum_{}".format(missing_name_counter, mol_obj_counter)
UntitledSdfName(missing, molnum) ==
    "untitled_lig_" \o ToString(missing) \o "_molnum_" \o ToString(molnum)

\* Variants of NextCopyNumber and FirstCopyNumber with plausible slips.
NextCopyNumberStuck(dups, name) == dups[name]

\* duplicate_names[name] = duplicate_names[name] + 1
NextCopyNumber(dups, name) == dups[name] + 1

\* duplicate_names[name] = 2
FirstCopyNumber == 2

\* "Handle duplicate ligands in same list": the name the record gets and the
\* updated duplicate_names, given the names saved so far.
HandleDuplicate(name, names, dups) ==
    IF name \in Range(names)
    THEN IF name \in DOMAIN dups
         THEN LET k == NextCopyNumber(dups, name)
              IN  [name |-> CopyName(name, k),
                   dups |-> [dups EXCEPT ![name] = k]]
         ELSE LET k == FirstCopyNumber
              IN  [name |-> CopyName(name, k),
                   dups |-> (name :> k) @@ dups]
    ELSE [name |-> name, dups |-> dups]

\* One iteration of "for line in open(filename)" of load_smiles_file.
LoadSmilesLine ==
    /\ ld_kind = "smi"
    /\ ld_pc = "loop"
    /\ ld_i <= Len(ld_input)
    /\ ld_i' = ld_i + 1
    /\ UNCHANGED <<ld_kind, ld_input, ld_pc>>
    /\ UNCHANGED <<mergeVars, runVars, addhVars>>
    /\ LET chunks == ld_input[ld_i] IN
       IF chunks = <<>>
       THEN UNCHANGED <<data, duplicate_names, missing_name_counter,
                        line_counter, name_list>>
       ELSE LET smiles   == chunks[1]
                given    == JoinSp(Tail(chunks))
                untitled == (given = "")
                name     == IF untitled
                            THEN UntitledSmiName(missing_name_counter, line_counter)
                            ELSE given
                h        == HandleDuplicate(name, name_list, duplicate_names)
            IN  /\ missing_name_counter' =
                       IF untitled THEN missing_name_counter + 1
                                   ELSE missing_name_counter
                /\ duplicate_names' = h.dups
                /\ name_list' = Append(name_list, h.name)
                /\ line_counter' = line_counter + 1
                /\ data' = Append(data, [smiles |-> smiles, name |-> h.name,
                                         props |-> {}])

\* One iteration of "for mol in suppl" of load_sdf_file.  The duplicate
\* handling, the counter and name_list.append are inside "if name == ''".
LoadSdfMol ==
    /\ ld_kind = "sdf"
    /\ ld_pc = "loop"
    /\ ld_i <= Len(ld_input)
    /\ UNCHANGED <<ld_kind, ld_input>>
    /\ UNCHANGED <<mergeVars, runVars, addhVars>>
    /\ LET mol == ld_input[ld_i] IN
       IF mol.isNone
       THEN \* Chem.MolToSmiles(None) raises
            /\ ld_pc' = "raised"
            /\ UNCHANGED <<ld_i, data, duplicate_names, missing_name_counter,
                           line_counter, name_list>>
       ELSE LET untitled == (mol.name = "")
                name     == IF untitled
                            THEN UntitledSdfName(missing_name_counter, line_counter)
                            ELSE mol.name
                h        == IF untitled
                            THEN HandleDuplicate(name, name_list, duplicate_names)
                            ELSE [name |-> name, dups |-> duplicate_names]
            IN  /\ ld_i' = ld_i + 1
                /\ ld_pc' = ld_pc
                /\ missing_name_counter' =
                       IF untitled THEN missing_name_counter + 1
                                   ELSE missing_name_counter
                /\ duplicate_names' = h.dups
                /\ line_counter' = IF untitled THEN line_counter + 1
                                               ELSE line_counter
                /\ name_list' = IF untitled THEN Append(name_list, h.name)
                                            ELSE name_list
                /\ data' = IF mol.smiles # ""
                           THEN Append(data, [smiles |-> mol.smiles,
                                              name |-> h.name,
                                              props |-> mol.props])
                           ELSE data

\* "return data" of either loader.
LoadReturn ==
    /\ ld_pc = "loop"
    /\ ld_i > Len(ld_input)
    /\ ld_pc' = "returned"
    /\ UNCHANGED <<ld_kind, ld_input, ld_i, data, duplicate_names,
                   missing_name_counter, line_counter, name_list>>
    /\ UNCHANGED <<mergeVars, runVars, addhVars>>


-----------------------------------------------------------------------------
(* Start.py: merge_parameters and make_type_dict                           *)

\* A Python value: its type and its literal.
Val(t, lit) == [t |-> t, lit |-> lit]

\* The dict "default" of set_parameters.
DefaultParams ==
    [ k \in { "source", "output_folder", "output_file", "separate_output_files",
              "output_pdb", "num_processors", "start_time", "end_time",
              "run_time", "min_ph", "max_ph", "ph_std_dev", "thoroughness",
              "max_variants_per_compound", "second_embed", "2d_output_only",
              "skip_optimize_geometry", "skip_alternate_ring_conformations",
              "skip_adding_hydrogen", "skip_making_tautomers",
              "skip_ennumerate_chiral_mol", "skip_ennumerate_double_bonds",
              "multithread_mode", "cache_prerun", "test" } |->
      CASE k \in {"source", "output_folder", "output_file"} -> Val("str", "")
        [] k = "multithread_mode"  -> Val("str", "multithreading")
        [] k = "num_processors"    -> Val("int", "-1")
        [] k \in {"start_time", "end_time", "run_time"} -> Val("int", "0")
        [] k = "thoroughness"      -> Val("int", "3")
        [] k = "max_variants_per_compound" -> Val("int", "5")
        [] k = "min_ph"            -> Val("float", "6.4")
        [] k = "max_ph"            -> Val("float", "8.4")
        [] k = "ph_std_dev"        -> Val("float", "1.0")
        [] OTHER                   -> Val("bool", "False") ]

\* isinstance(val, type): bool is a subclass of int in Python.
IsInstance(val, type) ==
    \/ val.t = type
    \/ val.t = "bool" /\ type = "int"

\* allowed_types = [int, float, bool, str]
allowed_types == <<"int", "float", "bool", "str">>

\* The inner loop of make_type_dict: every allowed type the value is an
\* instance of is assigned in turn, so the last one stays; "no type" stands
\* for the key missing from type_dict.
TypeDictEntry(val) ==
    LET hits == {n \in DOMAIN allowed_types : IsInstance(val, allowed_types[n])}
    IN  IF hits = {} THEN "no type"
        ELSE allowed_types[CHOOSE n \in hits : \A m \in hits : m <= n]

\* make_type_dict(dictionary), for a dictionary it does not raise on.
make_type_dict(dictionary) ==
    [k \in DOMAIN dictionary |-> TypeDictEntry(dictionary[k])]

\* float(n) of an int: its literal as a float's.
FloatOfInt(val) == Val("float", val.lit \o ".0")

\* The keys a user gives (lower-cased by set_parameters), "bogus" being no
\* option, and the values given for them.
UserKeyPool == {"thoroughness", "min_ph", "output_pdb", "source", "bogus"}

UserValPool ==
    { Val("int", "4"), Val("float", "7.5"), Val("bool", "True"),
      Val("str", "x.smi"), Val("NoneType", "None") }

\* The user's dicts: up to MaxUserParams pairs with distinct keys.
UserParamsPool ==
    { s \in SeqsUpTo(UserKeyPool \X UserValPool, MaxUserParams) :
        \A i, j \in DOMAIN s : i # j => s[i][1] # s[j][1] }

\* type_dict = make_type_dict(default)
MergeMakeTypeDict ==
    /\ mp_pc = "start"
    /\ mp_type_dict' = make_type_dict(mp_default)
    /\ mp_pc' = "loop"
    /\ UNCHANGED <<mp_params, mp_default, mp_i>>
    /\ UNCHANGED <<loadVars, runVars, addhVars>>

\* One iteration of "for param in params".
MergeParam ==
    /\ mp_pc = "loop"
    /\ mp_i <= Len(mp_params)
    /\ UNCHANGED <<mp_type_dict, loadVars, runVars, addhVars>>
    /\ LET param == mp_params[mp_i][1]
           val   == mp_params[mp_i][2]
       IN  IF param \notin DOMAIN mp_default
           THEN /\ mp_pc' = "KeyError"
                /\ UNCHANGED <<mp_params, mp_default, mp_i>>
           ELSE IF ~IsInstance(val, mp_type_dict[param])
           THEN IF val.t = "int" /\ mp_type_dict[param] = "float"
                THEN /\ mp_params' = [mp_params EXCEPT ![mp_i][2] = FloatOfInt(val)]
                     /\ mp_default' = [mp_default EXCEPT ![param] = FloatOfInt(val)]
                     /\ mp_i' = mp_i + 1
                     /\ mp_pc' = mp_pc
                ELSE /\ mp_pc' = "TypeError"
                     /\ UNCHANGED <<mp_params, mp_default, mp_i>>
           ELSE /\ mp_default' = [mp_default EXCEPT ![param] = val]
                /\ mp_i' = mp_i + 1
                /\ UNCHANGED <<mp_params, mp_pc>>

\* merge_parameters returns after the last pair.
MergeReturn ==
    /\ mp_pc = "loop"
    /\ mp_i > Len(mp_params)
    /\ mp_pc' = "returned"
    /\ UNCHANGED <<mp_params, mp_default, mp_type_dict, mp_i>>
    /\ UNCHANGED <<loadVars, runVars, addhVars>>

-----------------------------------------------------------------------------
(* Start.py: prepare_molecules                                             *)

None == "<None>"
NoParallelizer == [made |-> FALSE]
NoFile == <<"<no file>">>

\* str.lower() on the modes a user may give.
Lower(str) ==
    CASE str = "MPI"    -> "mpi"
      [] str = "Serial" -> "serial"
      [] OTHER          -> str

\* os.path.abspath(source), the working directory being /work.
AbsPath(source) == "/work/" \o source

\* src.lower().endswith(".smi") or src.lower().endswith(".can")
EndsWithSmiOrCan(src) == src \in {"/work/ligands.smi"}

\* params["source"].lower().endswith(".sdf")
EndsWithSdf(src) == src \in {"/work/ligands.sdf"}

\* What RDKit makes of a SMILES string.  Chem.MolFromSmiles(smiles,
\* sanitize=False) is None for a string it cannot parse; a "~" bond has
\* bond order 0; a five-valent carbon parses but cannot be sanitized, so the
\* container has no canonical SMILES.
MolFromSmilesIsNone(smiles) == smiles \in {"C("}
HasZeroOrderBond(smiles)    == smiles \in {"C~C"}
CanonicalSmiles(smiles) ==
    CASE smiles = "OCC"            -> "CCO"
      [] smiles = "C(C)(C)(C)(C)C" -> None
      [] OTHER                     -> smiles

\* The records a .smi or .sdf file may hold.
RecordPool ==
    { [smiles |-> "OCC",            name |-> "ethanol", props |-> {}],
      [smiles |-> "C",              name |-> "methane", props |-> {}],
      [smiles |-> "C~C",            name |-> "anybond", props |-> {}],
      [smiles |-> "C(",             name |-> "broken",  props |-> {}],
      [smiles |-> "C(C)(C)(C)(C)C", name |-> "texas",   props |-> {}] }

ModePool     == {"serial", "multithreading", "mpi", "MPI"}
NumProcsPool == {-1, 4}
SourcePool   == {"ligands.smi", "ligands.sdf", "CCO"}

Raise(exception) ==
    /\ pc' = "raised"
    /\ error' = exception

\* params = set_parameters(args): the user's values over the defaults, the
\* source made absolute and the mode lower-cased by finalize_params.
SetParameters ==
    /\ pc = "set_parameters"
    /\ params' = [source           |-> AbsPath(args.source),
                  multithread_mode |-> Lower(args.multithread_mode),
                  num_processors   |-> args.num_processors]
    /\ pc' = "serial_check"
    /\ UNCHANGED <<args, platform, mpi4py_installed, parallelizer, smiles_data,
                   build_i, contnrs, idx_counter, failed_file, calls, error>>
    /\ UNCHANGED <<loadVars, mergeVars, addhVars>>

\* "If running in serial mode, make sure only one processor is used."
SerialParams(p) ==
    IF p.multithread_mode = "serial" THEN [p EXCEPT !.num_processors = 1] ELSE p

SerialCheck ==
    /\ pc = "serial_check"
    /\ params' = SerialParams(params)
    /\ pc' = "mpi_check"
    /\ UNCHANGED <<args, platform, mpi4py_installed, parallelizer, smiles_data,
                   build_i, contnrs, idx_counter, failed_file, calls, error>>
    /\ UNCHANGED <<loadVars, mergeVars, addhVars>>

\* A variant of MpiMissing that lets the run go on without mpi4py.
MpiMissingIgnored(p, installed) == FALSE

\* "Handle mpi errors if mpi4py isn't installed": whether import mpi4py is
\* tried and fails.
MpiMissing(p, installed) == p.multithread_mode = "mpi" /\ ~installed

MpiCheck ==
    /\ pc = "mpi_check"
    /\ IF MpiMissing(params, mpi4py_installed)
       THEN Raise("ImportError")
       ELSE pc' = "win32_check" /\ error' = error
    /\ UNCHANGED <<args, platform, mpi4py_installed, params, parallelizer,
                   smiles_data, build_i, contnrs, idx_counter, failed_file, calls>>
    /\ UNCHANGED <<loadVars, mergeVars, addhVars>>

\* A variant of Win32Params that forgets the processor count.
Win32ParamsModeOnly(p) == [p EXCEPT !.multithread_mode = "serial"]

\* The two assignments made on win32.
Win32Params(p) == [p EXCEPT !.num_processors = 1, !.multithread_mode = "serial"]

Win32Check ==
    /\ pc = "win32_check"
    /\ params' = IF platform = "win32" THEN Win32Params(params) ELSE params
    /\ pc' = "parallelizer"
    /\ UNCHANGED <<args, platform, mpi4py_installed, parallelizer, smiles_data,
                   build_i, contnrs, idx_counter, failed_file, calls, error>>
    /\ UNCHANGED <<loadVars, mergeVars, addhVars>>

\* Parallelizer(mode, num_procs[, True]): the third argument flags that the
\* MPI mode is to be skipped.
Parallelizer(mode, num_procs, flag_for_low_level) ==
    [made |-> TRUE, mode |-> mode, num_procs |-> num_procs,
     flag_for_low_level |-> flag_for_low_level, ended |-> FALSE]

LaunchParallelizer ==
    /\ pc = "parallelizer"
    /\ parallelizer' =
           IF params.multithread_mode = "mpi"
           THEN Parallelizer(params.multithread_mode, params.num_processors, FALSE)
           ELSE Parallelizer(params.multithread_mode, params.num_processors, TRUE)
    /\ calls' = Append(calls, "Parallelizer")
    /\ pc' = "load"
    /\ UNCHANGED <<args, platform, mpi4py_installed, params, smiles_data,
                   build_i, contnrs, idx_counter, failed_file, error>>
    /\ UNCHANGED <<loadVars, mergeVars, addhVars>>

\* "Load SMILES data": a file's records, or the source string itself as the
\* only element of the list.  Reading the file may raise.
LoadData ==
    /\ pc = "load"
    /\ LET src == params.source IN
       \/ /\ EndsWithSmiOrCan(src) \/ EndsWithSdf(src)
          /\ \E recs \in SeqsUpTo(RecordPool, MaxRecords) :
                smiles_data' = [k \in DOMAIN recs |->
                                   [shape |-> "triple", smiles |-> recs[k].smiles,
                                    name |-> recs[k].name, props |-> recs[k].props]]
          /\ calls' = Append(calls, IF EndsWithSmiOrCan(src)
                                    THEN "load_smiles_file" ELSE "load_sdf_file")
          /\ pc' = "mkdir"
          /\ error' = error
       \/ /\ EndsWithSmiOrCan(src) \/ EndsWithSdf(src)
          /\ calls' = Append(calls, IF EndsWithSmiOrCan(src)
                                    THEN "load_smiles_file" ELSE "load_sdf_file")
          /\ Raise("IOError")
          /\ UNCHANGED smiles_data
       \/ /\ ~EndsWithSmiOrCan(src) /\ ~EndsWithSdf(src)
          /\ smiles_data' = <<[shape |-> "str", smiles |-> src,
                               name |-> "", props |-> {}]>>
          /\ pc' = "mkdir"
          /\ UNCHANGED <<calls, error>>
    /\ UNCHANGED <<args, platform, mpi4py_installed, params, parallelizer,
                   build_i, contnrs, idx_counter, failed_file>>
    /\ UNCHANGED <<loadVars, mergeVars, addhVars>>

\* "Make the output directory if necessary": it exists or is made, or
\* os.mkdir raises, or it cannot be found afterwards.
MakeOutputFolder ==
    /\ pc = "mkdir"
    /\ \E outcome \in {"ok", "OSError", "Exception: output folder"} :
          IF outcome = "ok"
          THEN pc' = "build" /\ error' = error
          ELSE Raise(outcome)
    /\ UNCHANGED <<args, platform, mpi4py_installed, params, parallelizer,
                   smiles_data, build_i, contnrs, idx_counter, failed_file, calls>>
    /\ UNCHANGED <<loadVars, mergeVars, addhVars>>

\* detect_unassigned_bonds(smiles), for a string RDKit can parse: None when
\* a bond has order 0, the string otherwise.
detect_unassigned_bonds(smiles) ==
    IF HasZeroOrderBond(smiles) THEN None ELSE smiles

\* MolContainer(smiles, name, index, properties): a container with no
\* variant yet.
MolContainer(smiles, name, index, properties) ==
    [orig_smi           |-> smiles,
     orig_smi_canonical |-> CanonicalSmiles(smiles),
     name               |-> name,
     contnr_idx         |-> index,
     properties         |-> properties,
     mols               |-> <<>>]

\* A variant of IdxCounterAfter in which a rejected record uses up an index.
IdxCounterAlwaysAdvances(idx, appended) == idx + 1

\* idx_counter after a record: "idx_counter += 1" follows the append, the
\* two "continue" skip it.
IdxCounterAfter(idx, appended) == IF appended THEN idx + 1 ELSE idx

\* One iteration of "for i in range(0, len(smiles_data))".
BuildContainer ==
    /\ pc = "build"
    /\ build_i <= Len(smiles_data)
    /\ UNCHANGED <<args, platform, mpi4py_installed, params, parallelizer,
                   smiles_data, failed_file, calls>>
    /\ UNCHANGED <<loadVars, mergeVars, addhVars>>
    /\ LET rec == smiles_data[build_i] IN
       IF rec.shape # "triple"
       THEN \* "smiles, name, props = smiles_data[i]" cannot unpack a string
            \* (of a length other than 3)
            /\ Raise("ValueError")
            /\ UNCHANGED <<build_i, contnrs, idx_counter>>
       ELSE IF MolFromSmilesIsNone(rec.smiles)
       THEN \* detect_unassigned_bonds: mol is None, mol.GetBonds() raises
            /\ Raise("AttributeError")
            /\ UNCHANGED <<build_i, contnrs, idx_counter>>
       ELSE LET new_contnr == MolContainer(rec.smiles, rec.name, idx_counter, rec.props)
                appended   == /\ detect_unassigned_bonds(rec.smiles) # None
                              /\ new_contnr.orig_smi_canonical # None
            IN  /\ contnrs' = IF appended THEN Append(contnrs, new_contnr)
                                          ELSE contnrs
                /\ idx_counter' = IdxCounterAfter(idx_counter, appended)
                /\ build_i' = build_i + 1
                /\ UNCHANGED <<pc, error>>

\* "Remove None types from failed conversion" and the check that follows.
RemoveNoneAndCheck ==
    /\ pc = "build"
    /\ build_i > Len(smiles_data)
    /\ LET kept == SelectSeq(contnrs, LAMBDA x : x.orig_smi_canonical # None) IN
       /\ contnrs' = kept
       /\ IF Len(kept) # idx_counter
          THEN Raise("Exception: There is a corrupted container")
          ELSE pc' = "prepare_smiles" /\ error' = error
    /\ UNCHANGED <<args, platform, mpi4py_installed, params, parallelizer,
                   smiles_data, build_i, idx_counter, failed_file, calls>>
    /\ UNCHANGED <<loadVars, mergeVars, addhVars>>

\* What a stage leaves in the containers: each container's variants
\* replaced, counts[k] of them for container k, none with a UniqueID yet.
StageResult(cs, counts) ==
    [k \in DOMAIN cs |->
        [cs[k] EXCEPT !.mols = [v \in 1..counts[k] |->
                                   [contnr_idx |-> cs[k].contnr_idx,
                                    UniqueID   |-> ""]]]]

\* prepare_smiles(contnrs, params): it returns with the containers' variants
\* replaced, or raises.
PrepareSmiles ==
    /\ pc = "prepare_smiles"
    /\ calls' = Append(calls, "prepare_smiles")
    /\ \/ /\ \E counts \in [DOMAIN contnrs -> 0..MaxVariants] :
                contnrs' = StageResult(contnrs, counts)
          /\ pc' = "prepare_3d"
          /\ error' = error
       \/ /\ Raise("Exception: prepare_smiles")
          /\ UNCHANGED contnrs
    /\ UNCHANGED <<args, platform, mpi4py_installed, params, parallelizer,
                   smiles_data, build_i, idx_counter, failed_file>>
    /\ UNCHANGED <<loadVars, mergeVars, addhVars>>

\* prepare_3d(contnrs, params): likewise.
Prepare3D ==
    /\ pc = "prepare_3d"
    /\ calls' = Append(calls, "prepare_3d")
    /\ \/ /\ \E counts \in [DOMAIN contnrs -> 0..MaxVariants] :
                contnrs' = StageResult(contnrs, counts)
          /\ pc' = "add_mol_id_props"
          /\ error' = error
       \/ /\ Raise("Exception: prepare_3d")
          /\ UNCHANGED contnrs
    /\ UNCHANGED <<args, platform, mpi4py_installed, params, parallelizer,
                   smiles_data, build_i, idx_counter, failed_file>>
    /\ UNCHANGED <<loadVars, mergeVars, addhVars>>

RECURSIVE CountMols(_, _)
\* The number of variants in the first n containers.
CountMols(cs, n) == IF n = 0 THEN 0 ELSE CountMols(cs, n - 1) + Len(cs[n].mols)

\* A variant of ContIdBefore in which the counter starts anew in each container.
ContIdRestarts(cs, c) == 0

\* cont_id when the walk of add_mol_id_props enters container c: it starts at
\* 0 and has gone up by one for each variant of the containers before c.
ContIdBefore(cs, c) == CountMols(cs, c - 1)

\* add_mol_id_props(contnrs)
add_mol_id_props(cs) ==
    [c \in DOMAIN cs |->
        [cs[c] EXCEPT !.mols =
            [v \in DOMAIN cs[c].mols |->
                [cs[c].mols[v] EXCEPT !.UniqueID = ToString(ContIdBefore(cs, c) + v)]]]]

AddMolIdProps ==
    /\ pc = "add_mol_id_props"
    /\ contnrs' = add_mol_id_props(contnrs)
    /\ calls' = Append(calls, "add_mol_id_props")
    /\ pc' = "deal_with_failed_molecules"
    /\ UNCHANGED <<args, platform, mpi4py_installed, params, parallelizer,
                   smiles_data, build_i, idx_counter, failed_file, error>>
    /\ UNCHANGED <<loadVars, mergeVars, addhVars>>

\* A variant of FailedLine that writes the canonical structure.
FailedLineCanonical(contnr) == contnr.orig_smi_canonical \o "\t" \o contnr.name

\* astr = contnr.orig_smi + "\t" + contnr.name
FailedLine(contnr) == contnr.orig_smi \o "\t" \o contnr.name

\* failed_ones of deal_with_failed_molecules.
FailedOnes(cs) ==
    LET failed == SelectSeq(cs, LAMBDA contnr : Len(contnr.mols) = 0)
    IN  [k \in DOMAIN failed |-> FailedLine(failed[k])]

\* Utils.print_current_smiles(contnrs) changes nothing; then
\* deal_with_failed_molecules(contnrs, params) writes the file when a
\* container failed.
DealWithFailedMolecules ==
    /\ pc = "deal_with_failed_molecules"
    /\ failed_file' = IF Len(FailedOnes(contnrs)) > 0 THEN FailedOnes(contnrs)
                                                      ELSE failed_file
    /\ calls' = Append(calls, "deal_with_failed_molecules")
    /\ pc' = "proccess_output"
    /\ UNCHANGED <<args, platform, mpi4py_installed, params, parallelizer,
                   smiles_data, build_i, contnrs, idx_counter, error>>
    /\ UNCHANGED <<loadVars, mergeVars, addhVars>>

\* proccess_output(contnrs, params): it returns or raises.
ProcessOutput ==
    /\ pc = "proccess_output"
    /\ calls' = Append(calls, "proccess_output")
    /\ \/ pc' = "end" /\ error' = error
       \/ Raise("Exception: proccess_output")
    /\ UNCHANGED <<args, platform, mpi4py_installed, params, parallelizer,
                   smiles_data, build_i, contnrs, idx_counter, failed_file>>
    /\ UNCHANGED <<loadVars, mergeVars, addhVars>>

\* params["Parallelizer"].end(params["multithread_mode"])
EndParallelizer ==
    /\ pc = "end"
    /\ parallelizer' = [parallelizer EXCEPT !.ended = TRUE]
    /\ calls' = Append(calls, "Parallelizer.end")
    /\ pc' = "done"
    /\ UNCHANGED <<args, platform, mpi4py_installed, params, smiles_data,
                   build_i, contnrs, idx_counter, failed_file, error>>
    /\ UNCHANGED <<loadVars, mergeVars, addhVars>>

-----------------------------------------------------------------------------
(* Steps/SMILES/AddHydrogens.py: add_hydrogens and parallel_add_H.         *)

\* The containers' structures when the protonation stage is entered: as
\* given, desalted, canonical.
AhStructurePool ==
    { [orig_smi |-> "OCC",   orig_smi_deslt |-> "OCC", orig_smi_canonical |-> "CCO",
       name |-> "ethanol"],
      [orig_smi |-> "CN.Cl", orig_smi_deslt |-> "CN",  orig_smi_canonical |-> "CN",
       name |-> "methylamine"] }

\* The genealogy of a container's original molecule when the stage is entered.
AhOrigGenealogy(t) ==
    IF t.orig_smi = t.orig_smi_deslt
    THEN <<t.orig_smi \o " (source)">>
    ELSE <<t.orig_smi \o " (source)", t.orig_smi_deslt \o " (desalted)">>

\* The container of a structure, with its original molecule
\* (mol_orig_frm_inp_smi), a MyMol.
AhContainer(t, idx) ==
    [ contnr_idx           |-> idx,
      name                 |-> t.name,
      orig_smi             |-> t.orig_smi,
      orig_smi_deslt       |-> t.orig_smi_deslt,
      orig_smi_canonical   |-> t.orig_smi_canonical,
      mol_orig_frm_inp_smi |-> [ smiles         |-> t.orig_smi_canonical,
                                 contnr_idx     |-> idx,
                                 name           |-> t.name,
                                 orig_smi       |-> t.orig_smi,
                                 orig_smi_deslt |-> t.orig_smi_deslt,
                                 genealogy      |-> AhOrigGenealogy(t) ],
      mols                 |-> <<>> ]

\* How parallelizer_obj.run runs the items: "serial" one after the other in
\* the caller's memory, "processes" at once, each worker on its own pickled
\* copy of the item, "threads" at once in the caller's memory.
BackendPool == {"serial", "processes", "threads"}

\* protonation_settings = {"min_ph": min_pH, "max_ph": max_pH, "st_dev": st_dev}
ProtonationSettings == [min_ph |-> "6.4", max_ph |-> "8.4", st_dev |-> "1.0"]

\* The dict object the j-th work item holds: tuple([cont, protonation_settings])
\* puts the one dict of add_hydrogens into every item.
ItemSettings(j) == "protonation_settings"

\* type(cont.orig_smi_canonical) == str
IsStr(v) == v # None

\* The positions in contnrs of the containers that become work items.
InputContnrs(cs) ==
    SelectSeq([k \in DOMAIN cs |-> k], LAMBDA k : IsStr(cs[k].orig_smi_canonical))

\* protonation_settings and inputs are made.
AhBuildInputs ==
    /\ ah_pc = "inputs"
    /\ LET picked == InputContnrs(ah_contnrs) IN
        /\ inputs' = [j \in DOMAIN picked |->
                        [contnr |-> picked[j], settings |-> ItemSettings(j)]]
        /\ ah_dicts' = [d \in {ItemSettings(j) : j \in DOMAIN picked} |->
                          ProtonationSettings]
        /\ ah_work' = [j \in DOMAIN picked |->
                         [st |-> "queued", mem |-> <<>>, protonated |-> None,
                          out |-> <<>>]]
    /\ ah_pc' = "run"
    /\ UNCHANGED <<ah_backend, ah_given, ah_contnrs, results,
                   contnr_idxs_of_failed, ah_k>>
    /\ UNCHANGED <<loadVars, mergeVars, runVars>>

\* Whether the backend may call parallel_add_H on item j now.
MayStart(j) ==
    ah_backend = "serial" => \A i \in 1..(j - 1) : ah_work[i].st = "done"

\* The settings dict parallel_add_H of item j works on.
ItemDict(j) ==
    IF ah_backend = "processes" /\ ah_work[j].st # "queued"
    THEN ah_work[j].mem
    ELSE ah_dicts[inputs[j].settings]

\* parallel_add_H, to protonation_settings["smiles"] = contnr.orig_smi_canonical.
AhWriteSmiles(j) ==
    /\ ah_pc = "run"
    /\ ah_work[j].st = "queued"
    /\ MayStart(j)
    /\ LET smi == ah_contnrs[inputs[j].contnr].orig_smi_canonical
           written == ("smiles" :> smi) @@ ItemDict(j) IN
        IF ah_backend = "processes"
        THEN /\ ah_work' = [ah_work EXCEPT ![j].st = "written", ![j].mem = written]
             /\ UNCHANGED ah_dicts
        ELSE /\ ah_work' = [ah_work EXCEPT ![j].st = "written"]
             /\ ah_dicts' = [ah_dicts EXCEPT ![inputs[j].settings] = written]
    /\ UNCHANGED <<ah_pc, ah_backend, ah_given, ah_contnrs, inputs, results,
                   contnr_idxs_of_failed, ah_k>>
    /\ UNCHANGED <<loadVars, mergeVars, runVars>>

\* The protonated form Dimorphite-DL may give besides the structure itself.
ProtonatedForm(smi) ==
    CASE smi = "CN"  -> "C[NH3+]"
      [] smi = "CCO" -> "CC[O-]"
      [] OTHER       -> smi

\* The genealogy the variant keeps a copy of: orig_mol.genealogy[:].
InheritedGenealogy(orig_mol) == orig_mol.genealogy

\* One Hm of the loop of parallel_add_H.
Hm(contnr, smi) ==
    LET orig_mol == contnr.mol_orig_frm_inp_smi IN
    [ smiles         |-> smi,
      contnr_idx     |-> contnr.contnr_idx,
      name           |-> orig_mol.name,
      orig_smi       |-> contnr.orig_smi,
      orig_smi_deslt |-> contnr.orig_smi_deslt,
      genealogy      |-> IF smi # orig_mol.smiles
                         THEN Append(InheritedGenealogy(orig_mol),
                                     smi \o " (protonated)")
                         ELSE InheritedGenealogy(orig_mol) ]

\* parallel_add_H from smis = protonate(protonation_settings) to its return.
AhProtonate(j) ==
    /\ ah_pc = "run"
    /\ ah_work[j].st = "written"
    /\ LET smi == ItemDict(j)["smiles"]
           contnr == ah_contnrs[inputs[j].contnr] IN
        \E smis \in SeqsUpTo({smi, ProtonatedForm(smi)}, MaxVariants) :
            ah_work' = [ah_work EXCEPT
                          ![j].st = "done",
                          ![j].protonated = smi,
                          ![j].out = [n \in DOMAIN smis |-> Hm(contnr, smis[n])]]
    /\ UNCHANGED <<ah_pc, ah_backend, ah_given, ah_contnrs, ah_dicts, inputs,
                   results, contnr_idxs_of_failed, ah_k>>
    /\ UNCHANGED <<loadVars, mergeVars, runVars>>

\* parallelizer_obj.run returns when every item has been worked.
RunMayReturn == \A j \in DOMAIN ah_work : ah_work[j].st = "done"

\* results = parallelizer_obj.run(inputs, parallel_add_H, ...)
AhRunReturn ==
    /\ ah_pc = "run"
    /\ RunMayReturn
    /\ results' = [j \in DOMAIN ah_work |-> ah_work[j].out]
    /\ ah_pc' = "flatten"
    /\ UNCHANGED <<ah_backend, ah_given, ah_contnrs, ah_dicts, inputs, ah_work,
                   contnr_idxs_of_failed, ah_k>>
    /\ UNCHANGED <<loadVars, mergeVars, runVars>>

\* Parallelizer.flatten_list(results)
RECURSIVE flatten_list(_)
flatten_list(tier_list) ==
    IF tier_list = <<>> THEN <<>>
    ELSE tier_list[1] \o flatten_list(Tail(tier_list))

\* Utils.fnd_contnrs_not_represntd(contnrs, results): the indexes of the
\* containers no molecule of results belongs to.
fnd_contnrs_not_represntd(cs, res) ==
    SelectSeq([k \in DOMAIN cs |-> k - 1],
              LAMBDA idx : \A n \in DOMAIN res : res[n].contnr_idx # idx)

\* results is flattened and the containers without a variant are found.
AhFlatten ==
    /\ ah_pc = "flatten"
    /\ results' = flatten_list(results)
    /\ contnr_idxs_of_failed' = fnd_contnrs_not_represntd(ah_contnrs, results')
    /\ ah_k' = 1
    /\ ah_pc' = "fallback"
    /\ UNCHANGED <<ah_backend, ah_given, ah_contnrs, ah_dicts, inputs, ah_work>>
    /\ UNCHANGED <<loadVars, mergeVars, runVars>>

Warning == "(WARNING: Gypsum could not assign protonation states)"

\* amol of the loop over contnr_idxs_of_failed: the container's own original
\* molecule, with contnr_idx and genealogy assigned.
FallbackMolOfFirst(cs, miss_indx) ==
    LET amol == cs[1].mol_orig_frm_inp_smi IN
    [amol EXCEPT
        !.contnr_idx = 0,
        !.genealogy = << amol.orig_smi \o " (source)",
                         amol.orig_smi_deslt \o " (desalted)",
                         Warning >>]
FallbackMol(cs, miss_indx) ==
    LET amol == cs[miss_indx + 1].mol_orig_frm_inp_smi IN
    [amol EXCEPT
        !.contnr_idx = miss_indx,
        !.genealogy = << amol.orig_smi \o " (source)",
                         amol.orig_smi_deslt \o " (desalted)",
                         Warning >>]

\* One pass of "for miss_indx in contnr_idxs_of_failed".  amol is the
\* container's molecule itself, so the assignments show in the container.
AhFallback ==
    /\ ah_pc = "fallback"
    /\ ah_k <= Len(contnr_idxs_of_failed)
    /\ LET miss_indx == contnr_idxs_of_failed[ah_k]
           amol == FallbackMol(ah_contnrs, miss_indx) IN
        /\ ah_contnrs' = [ah_contnrs EXCEPT
                            ![miss_indx + 1].mol_orig_frm_inp_smi = amol]
        /\ results' = Append(results, amol)
    /\ ah_k' = ah_k + 1
    /\ UNCHANGED <<ah_pc, ah_backend, ah_given, ah_dicts, inputs, ah_work,
                   contnr_idxs_of_failed>>
    /\ UNCHANGED <<loadVars, mergeVars, runVars>>

\* The for loop over contnr_idxs_of_failed has run out.
FallbackLoopLeftAtOnce(k, failed) == TRUE
FallbackLoopDone(k, failed) == k > Len(failed)

\* ChemUtils.bst_for_each_contnr_no_opt(contnrs, results, ...) is called.
AhSelectStart ==
    /\ ah_pc = "fallback"
    /\ FallbackLoopDone(ah_k, contnr_idxs_of_failed)
    /\ ah_pc' = "select"
    /\ UNCHANGED <<ah_backend, ah_given, ah_contnrs, ah_dicts, inputs, ah_work,
                   results, contnr_idxs_of_failed, ah_k>>
    /\ UNCHANGED <<loadVars, mergeVars, runVars>>

\* The first n elements of a list.
FirstN(s, n) == SubSeq(s, 1, IF Len(s) < n THEN Len(s) ELSE n)

\* ChemUtils.bst_for_each_contnr_no_opt: each container gets its molecules
\* of mol_lst, at most max_variants_per_compound of them.
bst_for_each_contnr_no_opt(cs, mol_lst) ==
    [k \in DOMAIN cs |->
        [cs[k] EXCEPT !.mols =
            FirstN(SelectSeq(mol_lst, LAMBDA mm : mm.contnr_idx = cs[k].contnr_idx),
                   MaxVariants)]]

\* bst_for_each_contnr_no_opt returns, and add_hydrogens with it.
AhSelectReturn ==
    /\ ah_pc = "select"
    /\ ah_contnrs' = bst_for_each_contnr_no_opt(ah_contnrs, results)
    /\ ah_pc' = "returned"
    /\ UNCHANGED <<ah_backend, ah_given, ah_dicts, inputs, ah_work, results,
                   contnr_idxs_of_failed, ah_k>>
    /\ UNCHANGED <<loadVars, mergeVars, runVars>>

-----------------------------------------------------------------------------
(* Specifications: one per part of the program.                            *)

\* The loaders not running.
LoadIdle ==
    /\ ld_kind = "smi"
    /\ ld_input = <<>>
    /\ ld_i = 1
    /\ ld_pc = "idle"
    /\ data = <<>>
    /\ duplicate_names = <<>>
    /\ missing_name_counter = 0
    /\ line_counter = 0
    /\ name_list = <<>>

\* merge_parameters not running.
MergeIdle ==
    /\ mp_params = <<>>
    /\ mp_default = <<>>
    /\ mp_type_dict = <<>>
    /\ mp_i = 1
    /\ mp_pc = "idle"

\* prepare_molecules not running.
RunIdle ==
    /\ pc = "idle"
    /\ args = <<>>
    /\ platform = "linux"
    /\ mpi4py_installed = FALSE
    /\ params = <<>>
    /\ parallelizer = NoParallelizer
    /\ smiles_data = <<>>
    /\ build_i = 1
    /\ contnrs = <<>>
    /\ idx_counter = 0
    /\ failed_file = NoFile
    /\ calls = <<>>
    /\ error = ""

\* add_hydrogens not running.
AddHIdle ==
    /\ ah_pc = "idle"
    /\ ah_backend = "serial"
    /\ ah_given = <<>>
    /\ ah_contnrs = <<>>
    /\ ah_dicts = <<>>
    /\ inputs = <<>>
    /\ ah_work = <<>>
    /\ results = <<>>
    /\ contnr_idxs_of_failed = <<>>
    /\ ah_k = 1

LoadInit ==
    /\ MergeIdle
    /\ RunIdle
    /\ AddHIdle
    /\ ld_kind \in {"smi", "sdf"}
    /\ ld_input \in IF ld_kind = "smi" THEN SeqsUpTo(SmiLinePool, MaxLines)
                                       ELSE SeqsUpTo(SdfMolPool, MaxLines)
    /\ ld_i = 1
    /\ ld_pc = "loop"
    /\ data = <<>>
    /\ duplicate_names = <<>>
    /\ missing_name_counter = 0
    /\ line_counter = 0
    /\ name_list = <<>>

LoadNext == LoadSmilesLine \/ LoadSdfMol \/ LoadReturn

SpecLoad == LoadInit /\ [][LoadNext]_vars

MergeInit ==
    /\ LoadIdle
    /\ RunIdle
    /\ AddHIdle
    /\ mp_params \in UserParamsPool
    /\ mp_default = DefaultParams
    /\ mp_type_dict = <<>>
    /\ mp_i = 1
    /\ mp_pc = "start"

MergeNext == MergeMakeTypeDict \/ MergeParam \/ MergeReturn

SpecMerge == MergeInit /\ [][MergeNext]_vars

\* prepare_molecules(args) is entered.
Init ==
    /\ LoadIdle
    /\ MergeIdle
    /\ AddHIdle
    /\ pc = "set_parameters"
    /\ args \in [multithread_mode : ModePool, num_processors : NumProcsPool,
                  source : SourcePool]
    /\ platform \in {"linux", "win32"}
    /\ mpi4py_installed \in BOOLEAN
    /\ params = <<>>
    /\ parallelizer = NoParallelizer
    /\ smiles_data = <<>>
    /\ build_i = 1
    /\ contnrs = <<>>
    /\ idx_counter = 0
    /\ failed_file = NoFile
    /\ calls = <<>>
    /\ error = ""

Next ==
    \/ SetParameters \/ SerialCheck \/ MpiCheck \/ Win32Check
    \/ LaunchParallelizer \/ LoadData \/ MakeOutputFolder
    \/ BuildContainer \/ RemoveNoneAndCheck
    \/ PrepareSmiles \/ Prepare3D \/ AddMolIdProps
    \/ DealWithFailedMolecules \/ ProcessOutput \/ EndParallelizer

Spec == Init /\ [][Next]_vars

\* add_hydrogens(contnrs, ...) is entered.
AddHInit ==
    /\ LoadIdle
    /\ MergeIdle
    /\ RunIdle
    /\ ah_pc = "inputs"
    /\ ah_backend \in BackendPool
    /\ \E ts \in SeqsUpTo(AhStructurePool, MaxRecords) :
          ah_given = [k \in DOMAIN ts |-> AhContainer(ts[k], k - 1)]
    /\ ah_contnrs = ah_given
    /\ ah_dicts = <<>>
    /\ inputs = <<>>
    /\ ah_work = <<>>
    /\ results = <<>>
    /\ contnr_idxs_of_failed = <<>>
    /\ ah_k = 1

AddHNext ==
    \/ AhBuildInputs
    \/ \E j \in DOMAIN ah_work : AhWriteSmiles(j)
    \/ \E j \in DOMAIN ah_work : AhProtonate(j)
    \/ AhRunReturn \/ AhFlatten \/ AhFallback \/ AhSelectStart \/ AhSelectReturn

SpecAddH == AddHInit /\ [][AddHNext]_vars

\* The stages: a run of prepare_molecules, or a call of add_hydrogens, the
\* stage of prepare_smiles whose code is at hand.
StagesInit == Init \/ AddHInit

StagesNext == Next \/ AddHNext

SpecStages == StagesInit /\ [][StagesNext]_vars

-----------------------------------------------------------------------------
(* Claims about the loaders (checked under SpecLoad).                      *)

\* The non-blank lines of the .smi file, in order: record i of data comes
\* from the i-th of them.
C2_NonBlank == SelectSeq(ld_input, LAMBDA chunks : chunks # <<>>)

\* The name line i carries before duplicates are handled: the name written
\* on the line, or the untitled name made from the number of unnamed lines
\* before it and its 0-based position.
C2_Given(i) ==
    LET nb      == C2_NonBlank
        written == [j \in 1..Len(nb) |-> JoinSp(Tail(nb[j]))]
    IN  IF written[i] = ""
        THEN UntitledSmiName(Cardinality({j \in 1..(i-1) : written[j] = ""}), i - 1)
        ELSE written[i]

\* C1: the records load_smiles_file holds never share a display name,
\* whatever the input lines are.
C1_SmilesNamesDistinct ==
    ld_kind = "smi" =>
        \A i, j \in DOMAIN data : i # j => data[i].name # data[j].name

\* C2 as stated: the first record carrying a name keeps it, the k-th record
\* (k >= 2) carrying the same name is renamed <name>_copy_<k>.
C2_KthRecordIsCopyK ==
    ld_kind = "smi" =>
        \A i \in DOMAIN data :
            LET n == C2_Given(i)
                k == Cardinality({j \in 1..i : C2_Given(j) = n})
            IN  data[i].name = IF k = 1 THEN n ELSE CopyName(n, k)

\* C2 as amended: a record keeps its name when no earlier record was given
\* that name (as written or by a rename); otherwise it is renamed
\* <name>_copy_<k>, k being 2 for the first record renamed from that name
\* and one more for each further one.
C2_RenamedByCopyNumber ==
    ld_kind = "smi" =>
        \A i \in DOMAIN data :
            LET n       == C2_Given(i)
                taken(j) == C2_Given(j) \in {data[l].name : l \in 1..(j-1)}
                r       == Cardinality({j \in 1..i : C2_Given(j) = n /\ taken(j)})
            IN  data[i].name = IF taken(i) THEN CopyName(n, r + 1) ELSE n

\* C2's case: three lines named lig were loaded; they came out as lig,
\* lig_copy_2 and lig_copy_3.
C2_Witness ==
    /\ ld_kind = "smi"
    /\ ld_pc = "returned"
    /\ Len(data) = 3
    /\ \A i \in 1..3 : C2_Given(i) = "lig"
    /\ data[1].name = "lig"
    /\ data[2].name = "lig_copy_2"
    /\ data[3].name = "lig_copy_3"

\* C3: the records load_sdf_file holds never share a display name: a
\* molecule whose name an earlier molecule carries is renamed.
C3_SdfNamesDistinct ==
    ld_kind = "sdf" =>
        \A i, j \in DOMAIN data : i # j => data[i].name # data[j].name

-----------------------------------------------------------------------------
(* Claims about merge_parameters (checked under SpecMerge).                *)

\* A pair is well typed when its value has the type of the option's default
\* or is an int given for a float option (an int the loop has widened is a
\* float in mp_params, well typed as the int was).
C8_WellTyped(pair) ==
    \/ pair[2].t = DefaultParams[pair[1]].t
    \/ pair[2].t = "int" /\ DefaultParams[pair[1]].t = "float"

\* C8: merge_parameters returns iff every key is an option and every value
\* is well typed; otherwise the first offending pair raises KeyError when
\* its key is no option and TypeError when its value is mistyped.
C8_AcceptsIffWellTyped ==
    mp_pc \in {"returned", "KeyError", "TypeError"} =>
        LET bad == {i \in DOMAIN mp_params :
                       \/ mp_params[i][1] \notin DOMAIN DefaultParams
                       \/ ~C8_WellTyped(mp_params[i])}
        IN  IF bad = {}
            THEN mp_pc = "returned"
            ELSE LET f == CHOOSE i \in bad : \A j \in bad : i <= j
                 IN  mp_pc = IF mp_params[f][1] \notin DOMAIN DefaultParams
                             THEN "KeyError" ELSE "TypeError"

-----------------------------------------------------------------------------
(* Claims about prepare_molecules (checked under Spec).                    *)

\* The input records a container is to be built for: those RDKit parses,
\* with no bond of order 0 and with a canonical SMILES.
RunValid(rec) ==
    /\ rec.shape = "triple"
    /\ rec.smiles \notin {"C(", "C~C", "C(C)(C)(C)(C)C"}

\* The valid records among the first n of smiles_data, in input order.
RunValidUpTo(n) == SelectSeq(SubSeq(smiles_data, 1, n), RunValid)

\* False until the loop over smiles_data has been left.
RunBuilt ==
    pc \in {"prepare_smiles", "prepare_3d", "add_mol_id_props",
            "deal_with_failed_molecules", "proccess_output", "end", "done"}

\* C4: at every point of the run container k (from 0) has identity k and
\* stands for the k-th accepted record; idx_counter is the number of records
\* accepted so far, so that a rejected record uses up no identity; and the
\* corrupted-container check does not fire.
C4_IdentityIsPosition ==
    /\ \A k \in DOMAIN contnrs : contnrs[k].contnr_idx = k - 1
    /\ idx_counter = Len(contnrs)
    /\ (\A k \in 1..(build_i - 1) : smiles_data[k].shape = "triple") =>
          /\ Len(contnrs) = Len(RunValidUpTo(build_i - 1))
          /\ \A k \in DOMAIN contnrs :
                /\ contnrs[k].orig_smi = RunValidUpTo(build_i - 1)[k].smiles
                /\ contnrs[k].name = RunValidUpTo(build_i - 1)[k].name
    /\ error # "Exception: There is a corrupted container"

\* C4's case: a run has ended in which the first record was rejected and
\* the second accepted, and the stages have left its container no variant.
C4_Witness ==
    /\ pc = "done"
    /\ Len(smiles_data) = 2
    /\ ~RunValid(smiles_data[1]) /\ RunValid(smiles_data[2])
    /\ Len(contnrs) = 1
    /\ contnrs[1].contnr_idx = 0
    /\ contnrs[1].mols = <<>>

\* C5: whatever records the input file holds, container building does not
\* raise, and once it is over there is one container per valid record, in
\* input order.
C5_MalformedRecordsDropped ==
    (\A k \in DOMAIN smiles_data : smiles_data[k].shape = "triple") =>
        /\ ~(pc = "raised" /\ error \in {"AttributeError", "ValueError",
                                         "Exception: There is a corrupted container"})
        /\ RunBuilt =>
              /\ Len(contnrs) = Len(RunValidUpTo(Len(smiles_data)))
              /\ \A k \in DOMAIN contnrs :
                    contnrs[k].orig_smi = RunValidUpTo(Len(smiles_data))[k].smiles

\* False until deal_with_failed_molecules has returned.
RunFailuresReported ==
    \/ pc \in {"proccess_output", "end", "done"}
    \/ pc = "raised" /\ error = "Exception: proccess_output"

\* C6: once deal_with_failed_molecules has returned, the lines written are
\* those of the containers without variants, in container order, each the
\* structure and name of the input record the container was built from,
\* joined by a tab; no file is written when every container has a variant.
C6_FailedContainersReported ==
    RunFailuresReported =>
        LET valid  == RunValidUpTo(Len(smiles_data))
            failed == SelectSeq([k \in DOMAIN contnrs |-> k],
                                LAMBDA k : Len(contnrs[k].mols) = 0)
        IN  IF failed = <<>>
            THEN failed_file = NoFile
            ELSE /\ Len(failed_file) = Len(failed)
                 /\ \A n \in DOMAIN failed :
                       failed_file[n] = valid[failed[n]].smiles \o "\t"
                                            \o valid[failed[n]].name

\* C6's case: of two containers the first kept a variant and the second,
\* given as OCC (canonical CCO), did not; the run has ended.
C6_Witness ==
    /\ pc = "done"
    /\ Len(contnrs) = 2
    /\ Len(contnrs[1].mols) > 0
    /\ contnrs[2].mols = <<>>
    /\ contnrs[2].orig_smi_canonical = "CCO"
    /\ failed_file = <<"OCC\tethanol">>

RECURSIVE RunAllMols(_)
\* The variants of all containers, in container order then variant order.
RunAllMols(cs) ==
    IF cs = <<>> THEN <<>> ELSE cs[1].mols \o RunAllMols(Tail(cs))

\* The positions of a call in the list of calls made.
RunCallsOf(name) == {n \in DOMAIN calls : calls[n] = name}

\* C7: the UniqueIDs are 1, 2, ..., N along the walk of all containers'
\* variants once add_mol_id_props has run, and no variant has one before;
\* the pass runs at most once, after prepare_smiles and prepare_3d were
\* called and returned, before deal_with_failed_molecules and
\* proccess_output, and exactly once in a run that ends.
C7_UniqueIdsFromOneCounter ==
    LET flat == RunAllMols(contnrs)
        ids  == RunCallsOf("add_mol_id_props")
    IN  /\ Cardinality(ids) <= 1
        /\ ids = {} => \A n \in DOMAIN flat : flat[n].UniqueID = ""
        /\ ids # {} =>
              /\ \A n \in DOMAIN flat : flat[n].UniqueID = ToString(n)
              /\ \E a, b \in DOMAIN calls :
                    /\ calls[a] = "prepare_smiles" /\ calls[b] = "prepare_3d"
                    /\ a < b /\ \A n \in ids : b < n
        /\ \A m \in RunCallsOf("deal_with_failed_molecules")
                      \cup RunCallsOf("proccess_output") :
              \E n \in ids : n < m
        /\ pc = "done" => Cardinality(ids) = 1

\* C7's case: a run has ended with two variants in the first container and
\* one in the second, numbered 1, 2 and 3.
C7_Witness ==
    /\ pc = "done"
    /\ Len(contnrs) = 2
    /\ Len(contnrs[1].mols) = 2
    /\ Len(contnrs[2].mols) = 1
    /\ contnrs[1].mols[2].UniqueID = "2"
    /\ contnrs[2].mols[1].UniqueID = "3"

\* C9: when the mode given is mpi (in any case of letters) and mpi4py cannot
\* be imported, the run is past the check only as a run ended by
\* ImportError, with no Parallelizer made, nothing loaded, no container
\* built and no call made.
C9_MpiWithoutRuntimeIsFatal ==
    ( /\ pc \notin {"set_parameters", "serial_check", "mpi_check"}
      /\ Lower(args.multithread_mode) = "mpi"
      /\ ~mpi4py_installed ) =>
        /\ pc = "raised"
        /\ error = "ImportError"
        /\ parallelizer = NoParallelizer
        /\ smiles_data = <<>>
        /\ contnrs = <<>>
        /\ calls = <<>>

\* C9's case: mpi asked for on win32 without mpi4py; the run has raised.
C9_Witness ==
    /\ pc = "raised"
    /\ error = "ImportError"
    /\ args.multithread_mode = "MPI"
    /\ platform = "win32"
    /\ ~mpi4py_installed

\* C10: once the mode is settled (past the win32 check), a serial mode goes
\* with num_processors = 1 in params, and a Parallelizer made for the serial
\* mode was given 1.
C10_SerialMeansOneWorker ==
    /\ ( /\ pc \notin {"set_parameters", "serial_check", "mpi_check", "win32_check"}
         /\ params.multithread_mode = "serial" ) =>
            params.num_processors = 1
    /\ (parallelizer.made /\ parallelizer.mode = "serial") =>
            parallelizer.num_procs = 1

\* C10's case: 4 processors and multithreading asked for on win32; the
\* Parallelizer was made serial with 1.
C10_Witness ==
    /\ parallelizer.made
    /\ platform = "win32"
    /\ args.multithread_mode = "multithreading"
    /\ args.num_processors = 4
    /\ parallelizer.mode = "serial"
    /\ parallelizer.num_procs = 1
    /\ params.num_processors = 1

\* C11: a run that has made its Parallelizer for the mpi mode and has ended,
\* normally or by an exception, has called the Parallelizer's end.
C11_MpiTeardownOnEveryExit ==
    ( /\ pc \in {"done", "raised"}
      /\ parallelizer.made
      /\ parallelizer.mode = "mpi" ) =>
        /\ parallelizer.ended
        /\ calls[Len(calls)] = "Parallelizer.end"

\* C16: when the source given is no .smi, .can or .sdf file name, the input
\* loaded is one record, a triple of the string given, the name "" and
\* properties, and container building does not raise on it.
C16_SourceStringIsOneRecord ==
    ( /\ pc \notin {"set_parameters", "serial_check", "mpi_check", "win32_check",
                    "parallelizer", "load"}
      /\ ~(pc = "raised" /\ error \in {"ImportError", "IOError"})
      /\ args.source \notin {"ligands.smi", "ligands.sdf"} ) =>
        /\ Len(smiles_data) = 1
        /\ smiles_data[1].shape = "triple"
        /\ smiles_data[1].smiles = args.source
        /\ smiles_data[1].name = ""
        /\ ~(pc = "raised" /\ error \in {"ValueError", "AttributeError"})

-----------------------------------------------------------------------------
(* Claims about add_hydrogens (checked under SpecAddH).                    *)

\* The canonical SMILES of the container of work item j.
AhOwnSmiles(j) == ah_contnrs[inputs[j].contnr].orig_smi_canonical

\* C12: every work item holds its own protonation settings: the settings of
\* an item not yet worked are the settings add_hydrogens made, untouched by
\* the other items' writes; those of an item being worked or worked hold its
\* own container's canonical SMILES and nothing of another item; and each
\* item is protonated with its own container's canonical SMILES.
C12_ItemsShareNoSettings ==
    \A j \in DOMAIN ah_work :
        /\ ah_work[j].st = "queued" => ItemDict(j) = ProtonationSettings
        /\ ah_work[j].st # "queued" =>
               ItemDict(j) = ("smiles" :> AhOwnSmiles(j)) @@ ProtonationSettings
        /\ ah_work[j].st = "done" => ah_work[j].protonated = AhOwnSmiles(j)

\* p is a prefix of the list s.
IsPrefix(p, s) == Len(p) <= Len(s) /\ SubSeq(s, 1, Len(p)) = p

\* The candidates made so far: the molecules the work items have returned
\* while the dispatch runs, results once it is flat.
AhCandidates ==
    IF ah_pc \in {"fallback", "select", "returned"} THEN results
    ELSE flatten_list([j \in DOMAIN ah_work |-> ah_work[j].out])

\* C13: the genealogy of every candidate starts with the source entry and
\* has its container's original genealogy as a prefix, and the original
\* genealogy of every container is the list it was when the stage was
\* entered: making or extending a candidate's genealogy has not changed it.
C13_LineageAppendOnly ==
    /\ \A n \in DOMAIN AhCandidates :
          LET mol == AhCandidates[n]
              given == ah_given[mol.contnr_idx + 1] IN
          /\ mol.genealogy # <<>>
          /\ mol.genealogy[1] = given.orig_smi \o " (source)"
          /\ IsPrefix(given.mol_orig_frm_inp_smi.genealogy, mol.genealogy)
    /\ \A k \in DOMAIN ah_contnrs :
          ah_contnrs[k].mol_orig_frm_inp_smi.genealogy =
              ah_given[k].mol_orig_frm_inp_smi.genealogy

\* The molecules the work items generated for the container of index idx.
AhGenerated(idx) ==
    SelectSeq(flatten_list([j \in DOMAIN ah_work |-> ah_work[j].out]),
              LAMBDA mol : mol.contnr_idx = idx)

\* The positions in results of the candidates of the container of index idx.
AhCandidatesOf(idx) == {n \in DOMAIN results : results[n].contnr_idx = idx}

\* C14: when the candidates are handed to the selector, a container without
\* a generated variant has exactly one candidate, its own original input
\* molecule with its index and a genealogy ending in the warning; a
\* container with generated variants has these and no fallback; so every
\* container has a candidate.
C14_OneFallbackPerMissingContainer ==
    ah_pc \in {"select", "returned"} =>
        \A k \in DOMAIN ah_contnrs :
            LET idx == k - 1
                given == ah_given[k].mol_orig_frm_inp_smi
                orig == ah_contnrs[k].mol_orig_frm_inp_smi IN
            /\ AhCandidatesOf(idx) # {}
            /\ AhGenerated(idx) = <<>> =>
                  /\ Cardinality(AhCandidatesOf(idx)) = 1
                  /\ \A n \in AhCandidatesOf(idx) :
                        /\ results[n] = orig
                        /\ results[n].smiles = given.smiles
                        /\ results[n].orig_smi = given.orig_smi
                        /\ results[n].name = given.name
                        /\ results[n].genealogy[Len(results[n].genealogy)] = Warning
            /\ AhGenerated(idx) # <<>> =>
                  /\ Cardinality(AhCandidatesOf(idx)) = Len(AhGenerated(idx))
                  /\ \A n \in AhCandidatesOf(idx) :
                        /\ \E g \in DOMAIN AhGenerated(idx) :
                              results[n] = AhGenerated(idx)[g]
                        /\ results[n].genealogy[Len(results[n].genealogy)] # Warning

\* Two containers reach the selector: the first with two generated variants,
\* the second with none and so with its fallback candidate.
C14_Witness ==
    /\ ah_pc = "select"
    /\ Len(ah_contnrs) = 2
    /\ Len(AhGenerated(0)) = 2
    /\ AhGenerated(1) = <<>>
    /\ contnr_idxs_of_failed = <<1>>
    /\ Len(results) = 3
    /\ results[3].contnr_idx = 1
    /\ results[3].genealogy[3] = Warning

-----------------------------------------------------------------------------
(* Claims about the order of the stages (checked under SpecStages).        *)

\* C15: while the selection pass of add_hydrogens is in progress or over,
\* the dispatch has returned the results of every work item, none is being
\* worked, and the fallback pass has finished, a candidate added for every
\* container found without one; and in prepare_molecules prepare_3d is
\* called only after prepare_smiles has been called and has returned, each
\* once.
C15_StagesUnderStrictBarrier ==
    /\ ah_pc \in {"select", "returned"} =>
          /\ \A j \in DOMAIN ah_work : ah_work[j].st = "done"
          /\ ah_k = Len(contnr_idxs_of_failed) + 1
          /\ Len(results) = Len(flatten_list([j \in DOMAIN ah_work |-> ah_work[j].out]))
                              + Len(contnr_idxs_of_failed)
          /\ \A k \in DOMAIN ah_contnrs : AhCandidatesOf(k - 1) # {}
    /\ \A j \in DOMAIN ah_work :
          ah_work[j].st # "queued" => ah_pc \notin {"idle", "inputs"}
    /\ \A n \in DOMAIN calls :
          calls[n] = "prepare_3d" =>
              /\ \E m \in 1..(n - 1) : calls[m] = "prepare_smiles"
              /\ \A m \in DOMAIN calls : calls[m] = "prepare_3d" => m = n
    /\ pc = "prepare_3d" =>
          /\ Cardinality(RunCallsOf("prepare_smiles")) = 1
          /\ RunCallsOf("prepare_3d") = {}
          /\ error = ""

\* The selection pass of add_hydrogens is in progress after a dispatch of
\* two work items, one of which gave no variant, and one fallback pass.
C15_Witness ==
    /\ ah_pc = "select"
    /\ Len(ah_work) = 2
    /\ ah_backend = "processes"
    /\ ah_work[1].out = <<>>
    /\ Len(ah_work[2].out) = 1
    /\ contnr_idxs_of_failed = <<0>>
    /\ Len(results) = 2

=============================================================================
